---- MODULE Spec2Model ----
(***************************************************************************)
(* Model of the test case pipeline: run_pipeline.py (the orchestrator and  *)
(* its command line entry), src/risk_scorer.py (scoring and ranking),      *)
(* src/llm_parser.py, src/ocr_extractor.py and src/exporter.py.            *)
(*                                                                         *)
(* Conventions.                                                            *)
(*  - A risk score is held in hundredths: 8900 stands for 89.0.            *)
(*  - A test case is a record (a Python dict); a key the dict lacks is a   *)
(*    field the record lacks.  test_steps and components are sequences.    *)
(*  - A raised exception is its message, str(e).                           *)
(***************************************************************************)
EXTENDS Integers, Sequences, FiniteSets, TLC

(***************************************************************************)
(* Bounds                                                                  *)
(***************************************************************************)
\* longest record collection handed to the stand-alone scorer
MaxRecords == 3
\* longest record collection in the artifacts of a pipeline run
MaxArtifactRecords == 2
\* largest score, in hundredths, handed to get_risk_category on its own
MaxScore == 10000
\* longest components list and longest test_steps list of a test case handed
\* to calculate_risk_score on its own
MaxComponents == 2
MaxSteps == 9

(***************************************************************************)
(* src/risk_scorer.py                                                      *)
(***************************************************************************)
PRIORITY_SCORES ==
  ("Critical" :> 10) @@ ("High" :> 7) @@ ("Medium" :> 4) @@ ("Low" :> 2)

TEST_TYPE_SCORES ==
  ("Security" :> 8) @@ ("Integration" :> 7) @@ ("Error Handling" :> 6) @@
  ("Functional" :> 5) @@ ("Performance" :> 4) @@ ("UI/UX" :> 3) @@
  ("Edge Case" :> 3)

HIGH_RISK_COMPONENTS ==
  ("Payment Gateway" :> 10) @@ ("Payment" :> 10) @@ ("Authentication" :> 9) @@
  ("Authorization" :> 9) @@ ("Security" :> 9) @@ ("Database" :> 7) @@
  ("API Security" :> 8) @@ ("Stripe" :> 9) @@ ("Password Management" :> 7) @@
  ("Access Control" :> 8) @@ ("Role Management" :> 7) @@
  ("SQL Injection Prevention" :> 10) @@ ("Input Validation" :> 6) @@
  ("Login" :> 7) @@ ("Checkout" :> 8) @@ ("Cart" :> 5) @@
  ("Shopping Cart" :> 5)

\* dict.get(key, default)
DictGet(d, key, default) == IF key \in DOMAIN d THEN d[key] ELSE default

\* d[key] = value on a dict: the other keys keep their values
DictSet(d, key, value) ==
  [k \in (DOMAIN d) \cup {key} |-> IF k = key THEN value ELSE d[k]]

get_complexity_score(test_steps) ==
  LET num_steps == Len(test_steps)
  IN  IF num_steps >= 8 THEN 6
      ELSE IF num_steps >= 5 THEN 4
      ELSE IF num_steps >= 3 THEN 2
      ELSE 1

RECURSIVE ComponentTotal(_)
ComponentTotal(components) ==
  IF components = <<>> THEN 0
  ELSE DictGet(HIGH_RISK_COMPONENTS, Head(components), 1)
       + ComponentTotal(Tail(components))

\* The average is a fraction num/den: total/len, capped at 10, 0 when empty.
get_component_risk(components) ==
  IF components = <<>> THEN [num |-> 0, den |-> 1]
  ELSE LET total == ComponentTotal(components)
           n     == Len(components)
       IN  IF total > 10 * n THEN [num |-> 10, den |-> 1]
           ELSE [num |-> total, den |-> n]

\* round(x, 2) of x = n/d hundredths.  A half never occurs for fewer than 16
\* components (200*total/len has a fractional part of 1/2 only when 16
\* divides len), so the rounding mode does not matter within the bounds.
Round2(n, d) == (2 * n + d) \div (2 * d)

\* the weights of priority and test type exchanged
CalculateRiskScoreSwapped(test_case) ==
  LET priority_score   == DictGet(PRIORITY_SCORES,
                                  DictGet(test_case, "priority", "Medium"), 4)
      type_score       == DictGet(TEST_TYPE_SCORES,
                                  DictGet(test_case, "test_type", "Functional"), 5)
      component_score  == get_component_risk(DictGet(test_case, "components", <<>>))
      complexity_score == get_complexity_score(DictGet(test_case, "test_steps", <<>>))
  IN  Round2((priority_score * 300 + type_score * 400
                + complexity_score * 100) * component_score.den
               + component_score.num * 200,
             component_score.den)

calculate_risk_score(test_case) ==
  LET priority         == DictGet(test_case, "priority", "Medium")
      priority_score   == DictGet(PRIORITY_SCORES, priority, 4)
      test_type        == DictGet(test_case, "test_type", "Functional")
      type_score       == DictGet(TEST_TYPE_SCORES, test_type, 5)
      components       == DictGet(test_case, "components", <<>>)
      component_score  == get_component_risk(components)
      test_steps       == DictGet(test_case, "test_steps", <<>>)
      complexity_score == get_complexity_score(test_steps)
  IN  Round2((priority_score * 400 + type_score * 300
                + complexity_score * 100) * component_score.den
               + component_score.num * 200,
             component_score.den)

\* bands that exclude their lower bound
GetRiskCategoryExclusive(score) ==
  IF score > 8000 THEN "CRITICAL"
  ELSE IF score > 6000 THEN "HIGH"
  ELSE IF score > 4000 THEN "MEDIUM"
  ELSE "LOW"

get_risk_category(score) ==
  IF score >= 8000 THEN "CRITICAL"
  ELSE IF score >= 6000 THEN "HIGH"
  ELSE IF score >= 4000 THEN "MEDIUM"
  ELSE "LOW"

\* a loop that writes the score without the category
ScoreEachScoreOnly(test_cases) ==
  [i \in 1..Len(test_cases) |->
     DictSet(test_cases[i], "risk_score", calculate_risk_score(test_cases[i]))]

\* for tc in test_cases: tc['risk_score'] = ...; tc['risk_category'] = ...
ScoreEach(test_cases) ==
  [i \in 1..Len(test_cases) |->
     LET score == calculate_risk_score(test_cases[i])
     IN  DictSet(DictSet(test_cases[i], "risk_score", score),
                 "risk_category", get_risk_category(score))]

Reverse(s) == [i \in 1..Len(s) |-> s[Len(s) + 1 - i]]

\* an insertion that stops at the first equal key: x goes in front of its
\* equals
RECURSIVE InsertByScoreStrict(_, _)
InsertByScoreStrict(x, sorted) ==
  IF sorted = <<>> THEN <<x>>
  ELSE IF Head(sorted).risk_score < x.risk_score
       THEN <<Head(sorted)>> \o InsertByScoreStrict(x, Tail(sorted))
       ELSE <<x>> \o sorted

\* Stable ascending sort on risk_score: x goes behind every element whose key
\* is not greater than its own.
RECURSIVE InsertByScore(_, _)
InsertByScore(x, sorted) ==
  IF sorted = <<>> THEN <<x>>
  ELSE IF Head(sorted).risk_score <= x.risk_score
       THEN <<Head(sorted)>> \o InsertByScore(x, Tail(sorted))
       ELSE <<x>> \o sorted

RECURSIVE StableSortByScore(_)
StableSortByScore(s) ==
  IF s = <<>> THEN <<>>
  ELSE InsertByScore(s[Len(s)], StableSortByScore(SubSeq(s, 1, Len(s) - 1)))

\* A sort that reverses the ascending result: equal keys come out swapped.
SortThenReverse(s) == Reverse(StableSortByScore(s))

\* list.sort(key=risk_score, reverse=True): the list is reversed, sorted
\* stably ascending and reversed again.
SortReverse(s) == Reverse(StableSortByScore(Reverse(s)))

\* numbering that starts at 0
EnumerateFromZero(test_cases) ==
  [i \in 1..Len(test_cases) |->
     DictSet(test_cases[i], "execution_order", i - 1)]

\* for i, tc in enumerate(test_cases, 1): tc['execution_order'] = i
AssignExecutionOrder(test_cases) ==
  [i \in 1..Len(test_cases) |-> DictSet(test_cases[i], "execution_order", i)]

\* a ranking that keeps one record of each score
RankOnePerScore(test_cases) ==
  LET scored == ScoreEach(test_cases)
      First(i) == \A j \in 1..(i - 1) : scored[j].risk_score # scored[i].risk_score
      Keep(n) == Cardinality({j \in 1..n : First(j)})
      kept == [k \in 1..Keep(Len(scored)) |->
                 scored[CHOOSE i \in 1..Len(scored) : First(i) /\ Keep(i) = k]]
  IN  AssignExecutionOrder(SortReverse(kept))

\* The record list add_risk_scores writes and returns.
RankRecords(test_cases) ==
  AssignExecutionOrder(SortReverse(ScoreEach(test_cases)))


\* json.load(f).get('test_cases', []) ... json.dump(result, f)
add_risk_scores(test_cases) == [test_cases |-> RankRecords(test_cases)]

(***************************************************************************)
(* src/exporter.py                                                         *)
(***************************************************************************)
\* number of records whose lower-cased label (default when absent) is name
CountLabel(test_cases, field, default, name) ==
  Cardinality({i \in 1..Len(test_cases) :
                 DictGet(test_cases[i], field, default) = name})

\* The payload written to both the JSON and the YAML file.
export_test_cases(test_cases) ==
  [metadata |->
     [total_test_cases |-> Len(test_cases),
      risk_summary |->
        [critical |-> CountLabel(test_cases, "risk_category", "UNKNOWN", "CRITICAL"),
         high     |-> CountLabel(test_cases, "risk_category", "UNKNOWN", "HIGH"),
         medium   |-> CountLabel(test_cases, "risk_category", "UNKNOWN", "MEDIUM"),
         low      |-> CountLabel(test_cases, "risk_category", "UNKNOWN", "LOW")],
      priority_summary |->
        [critical |-> CountLabel(test_cases, "priority", "Unknown", "Critical"),
         high     |-> CountLabel(test_cases, "priority", "Unknown", "High"),
         medium   |-> CountLabel(test_cases, "priority", "Unknown", "Medium"),
         low      |-> CountLabel(test_cases, "priority", "Unknown", "Low")]],
   test_cases |-> test_cases]

(***************************************************************************)
(* src/llm_parser.py                                                       *)
(***************************************************************************)
\* What the handler of parse_with_openai looks for in the provider's error
\* text.  An error text is the set of these markers it contains.
ErrorMarkers ==
  {"invalid_api_key", "401", "insufficient_quota", "429", "rate_limit"}

InvalidKeyMsg == "Invalid OpenAI API key. Please check your OPENAI_API_KEY in .env file."
QuotaMsg      == "OpenAI API quota exceeded or no credits."
RateLimitMsg  == "OpenAI API rate limit reached. Wait a bit and try again."
OtherApiMsg   == "OpenAI API error"

\* except Exception as e: the ValueError raised for error text error_msg
OpenAIErrorMessage(error_msg) ==
  IF "invalid_api_key" \in error_msg \/ "401" \in error_msg THEN InvalidKeyMsg
  ELSE IF "insufficient_quota" \in error_msg \/ "429" \in error_msg THEN QuotaMsg
  ELSE IF "rate_limit" \in error_msg THEN RateLimitMsg
  ELSE OtherApiMsg

NoApiKeyMsg        == "OPENAI_API_KEY not found in .env file"
UnknownProviderMsg == "Unknown LLM_PROVIDER"

\* parse_test_cases before the provider is called: the message of the
\* ValueError it raises for this configuration, "" when it raises none
ConfigError(config) ==
  IF config = "bad_provider" THEN UnknownProviderMsg
  ELSE IF config = "no_key" THEN NoApiKeyMsg
  ELSE ""

(***************************************************************************)
(* Inputs                                                                  *)
(***************************************************************************)
Steps(n) == [i \in 1..n |-> "step"]

\* Sample records: two that tie at 32.0 (one with unknown labels, one with
\* the scored keys missing), a CRITICAL one, a HIGH one, and one whose
\* component average is not a whole number.
RecordPool ==
  { [test_id |-> "TC-001", title |-> "Card payment", priority |-> "Critical",
     test_type |-> "Security",
     components |-> <<"Payment Gateway", "Authentication">>,
     test_steps |-> Steps(9)],
    [test_id |-> "TC-002", title |-> "Unlabelled", priority |-> "Unknown",
     test_type |-> "Unknown", components |-> <<>>, test_steps |-> <<>>],
    [test_id |-> "TC-003", title |-> "Bare"],
    [test_id |-> "TC-004", title |-> "Login sync", priority |-> "High",
     test_type |-> "Integration", components |-> <<"Login", "UI">>,
     test_steps |-> Steps(5)],
    [test_id |-> "TC-005", title |-> "Cart layout", priority |-> "Low",
     test_type |-> "UI/UX",
     components |-> <<"Cart", "Shopping Cart", "Footer">>,
     test_steps |-> Steps(3)] }

\* every list of at most n records of the pool
RecordLists(n) == UNION {[1..k -> RecordPool] : k \in 0..n}

(***************************************************************************)
(* run_pipeline.py                                                         *)
(***************************************************************************)
SamplePdf     == "data/raw_docs/sample_qa_doc.pdf"
CustomPdf     == "custom.pdf"
OcrPath       == "data/intermediate/ocr_text.txt"
TestcasesPath == "data/outputs/testcases.json"
ScoredPath    == "data/outputs/testcases_scored.json"
FinalJson     == "data/outputs/testcases_final.json"
FinalYaml     == "data/outputs/testcases_final.yaml"
EnvFile       == ".env"
None          == "None"

\* the names appended to results["steps_completed"], in program order
StageOrder ==
  <<"PDF Generation", "OCR Extraction", "LLM Parsing", "Risk Scoring", "Export">>

\* the stage whose code calls the collaborator
StageOfCall ==
  ("generate_sample_qa_doc" :> 1) @@ ("extract_text_from_pdf" :> 2) @@
  ("parse_test_cases" :> 3) @@ ("parse_with_openai" :> 3) @@
  ("add_risk_scores" :> 4) @@ ("export_test_cases" :> 5)

PdfNotFoundMsg    == "PDF file not found: custom.pdf"
GenerateFailedMsg == "sample document could not be written"
ExtractNotFoundMsg == "PDF not found"
ExtractFailedMsg  == "PDF could not be opened"
NoTestcasesMsg    == "No existing testcases.json found. Cannot skip LLM step."
NoEnvMsg          == ".env file not found! Please create .env with your OpenAI API key."
ScoreNotFoundMsg  == "No such file or directory: data/outputs/testcases.json"
ScoreFailedMsg    == "scored artifact could not be written"
ExportFailedMsg   == "export could not be written"

NoExit == -1

VARIABLES
  args,            \* skip_pdf, skip_llm, input_pdf
  env_config,      \* what load_dotenv finds: "ok", "no_key", "bad_provider"
  fs_exists,       \* the paths that exist
  ocr_text,        \* content of data/intermediate/ocr_text.txt
  testcases_json,  \* test_cases of data/outputs/testcases.json
  scored_json,     \* test_cases of data/outputs/testcases_scored.json
  export_data,     \* <<payload>> of the final JSON and YAML, <<>> if absent
  pc,              \* "running", "returned", "exited"; "scorer", "scorer_done"
  stage,           \* the step of run_pipeline being executed, 1..5
  results,         \* the run report
  calls,           \* the collaborators invoked so far, in order
  pdf_path,        \* local of run_pipeline
  extracted_text,  \* local of run_pipeline
  exit_status,     \* sys.exit code, NoExit while running
  provider_error,  \* <<text>> of the error the provider raised, else <<>>
  rescored_json,   \* add_risk_scores applied to the scored artifact
  case_in,         \* the test case handed to calculate_risk_score
  outcome,         \* what calculate_risk_score did with case_in
  score_in,        \* the score handed to get_risk_category
  category_out,    \* the label get_risk_category returned
  web,             \* the locals of each process_pdf call in progress
  web_fs           \* the files in the temporary directories of process_pdf

\* the state of the other entry points, at rest while the pipeline runs
aux == <<rescored_json, case_in, outcome, score_in, category_out, web, web_fs>>

vars == <<args, env_config, fs_exists, ocr_text, testcases_json, scored_json,
          export_data, pc, stage, results, calls, pdf_path, extracted_text,
          exit_status, provider_error, aux>>

files == <<fs_exists, ocr_text, testcases_json, scored_json, export_data>>

AuxInit ==
  /\ provider_error = <<>>
  /\ rescored_json = <<>>
  /\ case_in = <<>>
  /\ outcome = <<>>
  /\ score_in = 0
  /\ category_out = ""
  /\ web = <<>>
  /\ web_fs = <<>>

\* results = {"success": False, "steps_completed": [], "errors": []}
NewResults == [success |-> FALSE, steps_completed |-> <<>>, errors |-> <<>>]

Init ==
  /\ args \in [skip_pdf : BOOLEAN, skip_llm : BOOLEAN,
               input_pdf : {None, CustomPdf}]
  /\ env_config \in {"ok", "no_key", "bad_provider"}
  /\ fs_exists \in SUBSET {SamplePdf, CustomPdf, EnvFile, TestcasesPath}
  /\ ocr_text = ""
  /\ testcases_json \in IF TestcasesPath \in fs_exists
                        THEN RecordLists(MaxArtifactRecords) ELSE {<<>>}
  /\ scored_json = <<>>
  /\ export_data = <<>>
  /\ pc = "running"
  /\ stage = 1
  /\ results = NewResults
  /\ calls = <<>>
  /\ pdf_path = None
  /\ extracted_text = ""
  /\ exit_status = NoExit
  /\ AuxInit

\* the name is put in front of the list
StepCompletedInFront(res, name) ==
  [res EXCEPT !.steps_completed = <<name>> \o @]

\* results["steps_completed"].append(name)
StepCompleted(res, name) ==
  [res EXCEPT !.steps_completed = Append(@, name)]

\* a handler that reports in a fresh report: the completed steps are lost
HandleExceptionFreshReport(res, e) ==
  [success |-> FALSE, steps_completed |-> <<>>, errors |-> <<e>>]

\* except Exception as e: results["errors"].append(str(e))
HandleException(res, e) == [res EXCEPT !.errors = Append(@, e)]

\* the success flag is never set
PipelineCompleteNotSet(res) == res

\* results["success"] = True
PipelineComplete(res) == [res EXCEPT !.success = TRUE]

\* the flag alone decides, the file is not looked at
UseExistingPdfUnchecked(skip, exists) == skip

\* elif skip_pdf and os.path.exists("data/raw_docs/sample_qa_doc.pdf")
UseExistingPdf(skip, exists) == skip /\ exists

\* the skip_llm flag is ignored
SkipLlmIgnored(skip_llm) == FALSE

\* if skip_llm: ... else: ...
SkipLlmRequested(skip_llm) == skip_llm

\* the existence check is left out
SkipLlmUnchecked(exists) == TRUE

\* if not os.path.exists(testcases_path): raise FileNotFoundError
SkipLlmPrecondition(exists) == exists

\* sys.exit(0 if result["success"] else 1)
ExitCode(res) == IF res.success THEN 0 ELSE 1

\* A raise inside the try block: the handler records it and returns.
Raise(e) ==
  /\ results' = HandleException(results, e)
  /\ pc' = "returned"

\* A step finishes and the next one begins.
Advance ==
  /\ results' = StepCompleted(results, StageOrder[stage])
  /\ stage' = stage + 1

Running(n) == pc = "running" /\ stage = n


(* STEP 1: the PDF to read ------------------------------------------------*)
\* if input_pdf: the custom document, which must exist
Step1CustomPdf ==
  /\ Running(1)
  /\ args.input_pdf # None
  /\ IF args.input_pdf \in fs_exists
     THEN /\ pdf_path' = args.input_pdf
          /\ Advance
          /\ UNCHANGED pc
     ELSE /\ Raise(PdfNotFoundMsg)
          /\ UNCHANGED <<pdf_path, stage>>
  /\ UNCHANGED <<args, env_config, files, calls, extracted_text, exit_status>>
  /\ UNCHANGED <<provider_error, aux>>

\* elif skip_pdf and the sample exists: the sample is used as it is
Step1ExistingPdf ==
  /\ Running(1)
  /\ args.input_pdf = None
  /\ UseExistingPdf(args.skip_pdf, SamplePdf \in fs_exists)
  /\ pdf_path' = SamplePdf
  /\ Advance
  /\ UNCHANGED <<args, env_config, files, pc, calls, extracted_text,
                 exit_status>>
  /\ UNCHANGED <<provider_error, aux>>

\* else: pdf_path = generate_sample_qa_doc().  The generator (pdf_generator
\* is not among the sources) either raises or writes the sample document
\* and returns its path, taken to be the path the skip_pdf branch reads.
Step1Generate ==
  /\ Running(1)
  /\ args.input_pdf = None
  /\ ~UseExistingPdf(args.skip_pdf, SamplePdf \in fs_exists)
  /\ calls' = Append(calls, "generate_sample_qa_doc")
  /\ \E raised \in BOOLEAN :
       IF raised
       THEN /\ Raise(GenerateFailedMsg)
            /\ UNCHANGED <<fs_exists, pdf_path, stage>>
       ELSE /\ fs_exists' = fs_exists \cup {SamplePdf}
            /\ pdf_path' = SamplePdf
            /\ Advance
            /\ UNCHANGED pc
  /\ UNCHANGED <<args, env_config, ocr_text, testcases_json, scored_json,
                 export_data, extracted_text, exit_status>>
  /\ UNCHANGED <<provider_error, aux>>

(* STEP 2: extracted_text = extract_text_from_pdf(pdf_path, ocr_output_path) *)
\* The text is "" when no page has text; it is written to the OCR file.
Step2Extract ==
  /\ Running(2)
  /\ pdf_path \in fs_exists
  /\ calls' = Append(calls, "extract_text_from_pdf")
  /\ \E text \in {"", "TC-001 ..."} :
       /\ extracted_text' = text
       /\ ocr_text' = text
  /\ fs_exists' = fs_exists \cup {OcrPath}
  /\ Advance
  /\ UNCHANGED <<args, env_config, testcases_json, scored_json, export_data,
                 pc, pdf_path, exit_status>>
  /\ UNCHANGED <<provider_error, aux>>

\* extract_text_from_pdf raises: the PDF is missing or cannot be opened
Step2ExtractFails ==
  /\ Running(2)
  /\ calls' = Append(calls, "extract_text_from_pdf")
  /\ Raise(IF pdf_path \in fs_exists THEN ExtractFailedMsg
           ELSE ExtractNotFoundMsg)
  /\ UNCHANGED <<args, env_config, files, stage, pdf_path, extracted_text,
                 exit_status>>
  /\ UNCHANGED <<provider_error, aux>>

(* STEP 3: LLM parsing ------------------------------------------------------*)
\* if skip_llm: testcases.json must exist and is left as it is
Step3SkipLlm ==
  /\ Running(3)
  /\ SkipLlmRequested(args.skip_llm)
  /\ IF SkipLlmPrecondition(TestcasesPath \in fs_exists)
     THEN Advance /\ UNCHANGED pc
     ELSE Raise(NoTestcasesMsg) /\ UNCHANGED stage
  /\ UNCHANGED <<args, env_config, files, calls, pdf_path, extracted_text,
                 exit_status>>
  /\ UNCHANGED <<provider_error, aux>>

\* else, without a .env file: FileNotFoundError
Step3NoEnvFile ==
  /\ Running(3)
  /\ ~SkipLlmRequested(args.skip_llm)
  /\ EnvFile \notin fs_exists
  /\ Raise(NoEnvMsg)
  /\ UNCHANGED <<args, env_config, files, stage, calls, pdf_path,
                 extracted_text, exit_status>>
  /\ UNCHANGED <<provider_error, aux>>

\* parse_test_cases raises before the provider is called
Step3ConfigError ==
  /\ Running(3)
  /\ ~SkipLlmRequested(args.skip_llm)
  /\ EnvFile \in fs_exists
  /\ ConfigError(env_config) # ""
  /\ calls' = Append(calls, "parse_test_cases")
  /\ Raise(ConfigError(env_config))
  /\ UNCHANGED <<args, env_config, files, stage, pdf_path, extracted_text,
                 exit_status>>
  /\ UNCHANGED <<provider_error, aux>>

\* parse_with_openai raises the ValueError that matches the provider's error
Step3ProviderError ==
  /\ Running(3)
  /\ ~SkipLlmRequested(args.skip_llm)
  /\ EnvFile \in fs_exists
  /\ ConfigError(env_config) = ""
  /\ calls' = calls \o <<"parse_test_cases", "parse_with_openai">>
  /\ \E error_msg \in SUBSET ErrorMarkers :
       /\ provider_error' = <<error_msg>>
       /\ Raise(OpenAIErrorMessage(error_msg))
  /\ UNCHANGED <<args, env_config, files, stage, pdf_path, extracted_text,
                 exit_status>>
  /\ UNCHANGED aux

\* parse_test_cases returns the provider's records and writes testcases.json
Step3Parse ==
  /\ Running(3)
  /\ ~SkipLlmRequested(args.skip_llm)
  /\ EnvFile \in fs_exists
  /\ ConfigError(env_config) = ""
  /\ calls' = calls \o <<"parse_test_cases", "parse_with_openai">>
  /\ \E parsed \in RecordLists(MaxArtifactRecords) :
       testcases_json' = parsed
  /\ fs_exists' = fs_exists \cup {TestcasesPath}
  /\ Advance
  /\ UNCHANGED <<args, env_config, ocr_text, scored_json, export_data, pc,
                 pdf_path, extracted_text, exit_status>>
  /\ UNCHANGED <<provider_error, aux>>

(* STEP 4: scored_data = add_risk_scores(testcases_path, scored_path) -------*)
Step4Score ==
  /\ Running(4)
  /\ TestcasesPath \in fs_exists
  /\ calls' = Append(calls, "add_risk_scores")
  /\ scored_json' = add_risk_scores(testcases_json).test_cases
  /\ fs_exists' = fs_exists \cup {ScoredPath}
  /\ Advance
  /\ UNCHANGED <<args, env_config, ocr_text, testcases_json, export_data, pc,
                 pdf_path, extracted_text, exit_status>>
  /\ UNCHANGED <<provider_error, aux>>

\* add_risk_scores raises: the input is missing or the output is not writable
Step4ScoreFails ==
  /\ Running(4)
  /\ calls' = Append(calls, "add_risk_scores")
  /\ Raise(IF TestcasesPath \in fs_exists THEN ScoreFailedMsg
           ELSE ScoreNotFoundMsg)
  /\ UNCHANGED <<args, env_config, files, stage, pdf_path, extracted_text,
                 exit_status>>
  /\ UNCHANGED <<provider_error, aux>>

(* STEP 5: export_test_cases(scored_path, final_json, final_yaml) -----------*)
\* the last step: results["success"] = True and the report is returned
Step5Export ==
  /\ Running(5)
  /\ ScoredPath \in fs_exists
  /\ calls' = Append(calls, "export_test_cases")
  /\ export_data' = <<export_test_cases(scored_json)>>
  /\ fs_exists' = fs_exists \cup {FinalJson, FinalYaml}
  /\ results' = PipelineComplete(StepCompleted(results, StageOrder[stage]))
  /\ pc' = "returned"
  /\ UNCHANGED <<args, env_config, ocr_text, testcases_json, scored_json,
                 stage, pdf_path, extracted_text, exit_status>>
  /\ UNCHANGED <<provider_error, aux>>

Step5ExportFails ==
  /\ Running(5)
  /\ calls' = Append(calls, "export_test_cases")
  /\ Raise(ExportFailedMsg)
  /\ UNCHANGED <<args, env_config, files, stage, pdf_path, extracted_text,
                 exit_status>>
  /\ UNCHANGED <<provider_error, aux>>

(* __main__: sys.exit(0 if result["success"] else 1) ------------------------*)
Exit ==
  /\ pc = "returned"
  /\ exit_status' = ExitCode(results)
  /\ pc' = "exited"
  /\ UNCHANGED <<args, env_config, files, stage, results, calls, pdf_path,
                 extracted_text>>
  /\ UNCHANGED <<provider_error, aux>>

Next ==
  \/ Step1CustomPdf
  \/ Step1ExistingPdf
  \/ Step1Generate
  \/ Step2Extract
  \/ Step2ExtractFails
  \/ Step3SkipLlm
  \/ Step3NoEnvFile
  \/ Step3ConfigError
  \/ Step3ProviderError
  \/ Step3Parse
  \/ Step4Score
  \/ Step4ScoreFails
  \/ Step5Export
  \/ Step5ExportFails
  \/ Exit

Spec == Init /\ [][Next]_vars

(***************************************************************************)
(* src/risk_scorer.py run on its own (__main__): the scorer applied to     *)
(* whatever data/outputs/testcases.json holds.                             *)
(***************************************************************************)
RankInit ==
  /\ args = [skip_pdf |-> FALSE, skip_llm |-> FALSE, input_pdf |-> None]
  /\ env_config = "ok"
  /\ fs_exists \in SUBSET {TestcasesPath}
  /\ ocr_text = ""
  /\ testcases_json \in IF TestcasesPath \in fs_exists
                        THEN RecordLists(MaxRecords) ELSE {<<>>}
  /\ scored_json = <<>>
  /\ export_data = <<>>
  /\ pc = "scorer"
  /\ stage = 4
  /\ results = NewResults
  /\ calls = <<>>
  /\ pdf_path = None
  /\ extracted_text = ""
  /\ exit_status = NoExit
  /\ AuxInit

\* result = add_risk_scores(input_file, output_file)
ScorerMain ==
  /\ pc = "scorer"
  /\ TestcasesPath \in fs_exists
  /\ calls' = Append(calls, "add_risk_scores")
  /\ scored_json' = add_risk_scores(testcases_json).test_cases
  /\ fs_exists' = fs_exists \cup {ScoredPath}
  /\ pc' = "scorer_done"
  /\ UNCHANGED <<args, env_config, ocr_text, testcases_json, export_data,
                 stage, results, pdf_path, extracted_text, exit_status>>
  /\ UNCHANGED <<provider_error, aux>>

\* except FileNotFoundError: "[ERROR] Input file not found"
ScorerMainNotFound ==
  /\ pc = "scorer"
  /\ TestcasesPath \notin fs_exists
  /\ calls' = Append(calls, "add_risk_scores")
  /\ pc' = "scorer_done"
  /\ UNCHANGED <<args, env_config, files, stage, results, pdf_path,
                 extracted_text, exit_status>>
  /\ UNCHANGED <<provider_error, aux>>

\* add_risk_scores(scored_path, ...): the scorer applied to its own output.
\* The records it reads carry the three derived fields already.
ScorerRerun ==
  /\ pc = "scorer_done"
  /\ ScoredPath \in fs_exists
  /\ calls' = Append(calls, "add_risk_scores")
  /\ rescored_json' = add_risk_scores(scored_json).test_cases
  /\ pc' = "rescored"
  /\ UNCHANGED <<args, env_config, files, stage, results, pdf_path,
                 extracted_text, exit_status, provider_error, case_in,
                 outcome, score_in, category_out, web, web_fs>>

RankNext == ScorerMain \/ ScorerMainNotFound \/ ScorerRerun

RankSpec == RankInit /\ [][RankNext]_vars


(***************************************************************************)
(* get_risk_category on its own: the function applied to any score with    *)
(* two decimals.                                                           *)
(***************************************************************************)
\* the pipeline has not been started
PipelineIdle ==
  /\ args = [skip_pdf |-> FALSE, skip_llm |-> FALSE, input_pdf |-> None]
  /\ env_config = "ok"
  /\ fs_exists = {}
  /\ ocr_text = ""
  /\ testcases_json = <<>>
  /\ scored_json = <<>>
  /\ export_data = <<>>
  /\ stage = 1
  /\ results = NewResults
  /\ calls = <<>>
  /\ pdf_path = None
  /\ extracted_text = ""
  /\ exit_status = NoExit
  /\ provider_error = <<>>
  /\ rescored_json = <<>>

pipeline == <<args, env_config, files, stage, results, calls, pdf_path,
              extracted_text, exit_status, provider_error, rescored_json>>

CategoryInit ==
  /\ PipelineIdle
  /\ pc = "category"
  /\ score_in \in 0..MaxScore
  /\ category_out = ""
  /\ case_in = <<>>
  /\ outcome = <<>>
  /\ web = <<>>
  /\ web_fs = <<>>

\* category = get_risk_category(score)
GetRiskCategory ==
  /\ pc = "category"
  /\ category_out' = get_risk_category(score_in)
  /\ pc' = "category_done"
  /\ UNCHANGED <<pipeline, score_in, case_in, outcome, web, web_fs>>

CategoryNext == GetRiskCategory

CategorySpec == CategoryInit /\ [][CategoryNext]_vars

(***************************************************************************)
(* calculate_risk_score on its own, applied to one test case as the        *)
(* language model may return it: json.loads gives each key a value of any  *)
(* JSON type.  A value is [kind, val]:                                     *)
(*   "string"  val is the string; for components and test_steps, where     *)
(*             only len() and iteration look at it, val is its characters  *)
(*   "array"   val is the list of its (string) elements                    *)
(*   "nested"  val is a list of lists                                      *)
(*   "number"  val is the number                                           *)
(*   "null"    None                                                        *)
(*   "absent"  the key is not in the dict                                  *)
(***************************************************************************)
JStr(v)    == [kind |-> "string", val |-> v]
JArr(v)    == [kind |-> "array", val |-> v]
JNested(v) == [kind |-> "nested", val |-> v]
JNum(v)    == [kind |-> "number", val |-> v]
JNull      == [kind |-> "null", val |-> "null"]
JAbsent    == [kind |-> "absent", val |-> "absent"]

\* hash(v) works: lists (and dicts) are unhashable
Hashable(v) == v.kind \notin {"array", "nested"}

\* bool(v)
Truthy(v) ==
  CASE v.kind = "null" -> FALSE
    [] v.kind = "number" -> v.val # 0
    [] OTHER -> v.val # <<>>

\* len(v) and iter(v) work: not on a number
Sized(v) == v.kind \in {"string", "array", "nested"}

\* PRIORITY_SCORES.get(priority, 4) / TEST_TYPE_SCORES.get(test_type, 5):
\* TypeError for an unhashable key
LookupRaises(v) == ~Hashable(v)

\* get_component_risk: `if not components: return 0`, then the loop over
\* components with HIGH_RISK_COMPONENTS.get(comp, 1): TypeError when the
\* value cannot be iterated or an element is unhashable
ComponentRiskRaises(v) ==
  /\ Truthy(v)
  /\ \/ ~Sized(v)
     \/ v.kind = "nested"

\* get_complexity_score: `len(test_steps) if test_steps else 0`: TypeError
\* when a truthy value has no len()
ComplexityRaises(v) == Truthy(v) /\ ~Sized(v)

\* test_case.get(key, default) on the JSON object
JGet(jcase, key, default) ==
  IF key \in DOMAIN jcase THEN jcase[key] ELSE default

CalculateRaises(jcase) ==
  \/ LookupRaises(JGet(jcase, "priority", JStr("Medium")))
  \/ LookupRaises(JGet(jcase, "test_type", JStr("Functional")))
  \/ ComponentRiskRaises(JGet(jcase, "components", JArr(<<>>)))
  \/ ComplexityRaises(JGet(jcase, "test_steps", JArr(<<>>)))

\* A label as the tables see it: a hashable value that is not a string is
\* held as the name of its kind, which is a key of no table.
PlainLabel(v) == IF v.kind = "string" THEN v.val ELSE v.kind

\* A list as len() and the loop see it: a falsy value counts as empty.
PlainList(v) == IF Truthy(v) THEN v.val ELSE <<>>

\* The test case in the representation of calculate_risk_score, for a case
\* on which it does not raise.
PlainCase(jcase) ==
  [k \in DOMAIN jcase |->
     IF k \in {"priority", "test_type"} THEN PlainLabel(jcase[k])
     ELSE PlainList(jcase[k])]

\* score = calculate_risk_score(tc); get_risk_category(score)
ScoreOutcome(jcase) ==
  IF CalculateRaises(jcase) THEN [raised |-> TRUE]
  ELSE LET risk == calculate_risk_score(PlainCase(jcase))
       IN  [raised |-> FALSE, score |-> risk,
            category |-> get_risk_category(risk)]

ComponentNames == {"Payment Gateway", "Authentication", "Cart", "Footer"}

PriorityValues ==
  {JStr(p) : p \in {"Critical", "High", "Medium", "Low", "Unknown"}}
    \cup {JNull, JArr(<<"High">>), JAbsent}

TestTypeValues ==
  {JStr(t) : t \in (DOMAIN TEST_TYPE_SCORES) \cup {"Unknown"}}
    \cup {JNull, JArr(<<"Security">>), JAbsent}

ComponentsValues ==
  {JArr(c) : c \in UNION {[1..k -> ComponentNames] : k \in 0..MaxComponents}}
    \cup {JNull, JStr(<<"L", "o", "g", "i", "n">>), JNum(3),
          JNested(<<<<"Login">>>>), JAbsent}

TestStepsValues ==
  {JArr(Steps(n)) : n \in 0..MaxSteps}
    \cup {JNull, JStr(<<"o", "p", "e", "n">>), JNum(0), JNum(5), JAbsent}

\* the JSON object with the keys that are not absent
JCase(priority, test_type, components, test_steps) ==
  LET all == [priority |-> priority, test_type |-> test_type,
              components |-> components, test_steps |-> test_steps]
  IN  [k \in {f \in DOMAIN all : all[f].kind # "absent"} |-> all[k]]

ScoreInit ==
  /\ PipelineIdle
  /\ pc = "score"
  /\ case_in \in {JCase(p, t, c, n) : p \in PriorityValues, t \in TestTypeValues,
                                      c \in ComponentsValues, n \in TestStepsValues}
  /\ outcome = <<>>
  /\ score_in = 0
  /\ category_out = ""
  /\ web = <<>>
  /\ web_fs = <<>>

\* the body of the scoring loop on one test case
CalculateRiskScore ==
  /\ pc = "score"
  /\ outcome' = ScoreOutcome(case_in)
  /\ pc' = "score_done"
  /\ UNCHANGED <<pipeline, case_in, score_in, category_out, web, web_fs>>

ScoreNext == CalculateRiskScore

ScoreSpec == ScoreInit /\ [][ScoreNext]_vars

(***************************************************************************)
(* Properties                                                              *)
(***************************************************************************)
Done == pc \in {"returned", "exited"}

Called(c) == \E i \in 1..Len(calls) : calls[i] = c

Completed(name) ==
  \E i \in 1..Len(results.steps_completed) : results.steps_completed[i] = name

\* C1: fail-fast.  When a step raises, the run returns at once: the report
\* is unsuccessful, its error list has exactly one entry, steps_completed is
\* exactly the steps before the failing one, and no collaborator of a later
\* step was invoked.
C1_FailFast ==
  (Done /\ ~results.success) =>
    /\ Len(results.errors) = 1
    /\ results.steps_completed = SubSeq(StageOrder, 1, stage - 1)
    /\ \A i \in 1..Len(calls) : StageOfCall[calls[i]] <= stage

\* a run that failed in Risk Scoring after three completed steps
C1_Witness ==
  /\ Done
  /\ ~results.success
  /\ stage = 4
  /\ results.errors = <<ScoreFailedMsg>>
  /\ Len(results.steps_completed) = 3

\* C2: skip_llm without testcases.json.  The run fails; LLM Parsing is not
\* completed; neither the language model nor add_risk_scores nor
\* export_test_cases is invoked; and when extraction succeeded the report
\* shows exactly PDF Generation and OCR Extraction with the error of the
\* missing testcases.json.
C2_ResumeFailure ==
  (Done /\ args.skip_llm /\ TestcasesPath \notin fs_exists) =>
    /\ ~results.success
    /\ Len(results.errors) = 1
    /\ ~Completed("LLM Parsing")
    /\ ~Called("parse_test_cases")
    /\ ~Called("parse_with_openai")
    /\ ~Called("add_risk_scores")
    /\ ~Called("export_test_cases")
    /\ Completed("OCR Extraction") =>
         /\ results.steps_completed = <<"PDF Generation", "OCR Extraction">>
         /\ results.errors = <<NoTestcasesMsg>>

C2_Witness ==
  /\ Done
  /\ args.skip_llm
  /\ TestcasesPath \notin fs_exists
  /\ results.errors = <<NoTestcasesMsg>>
  /\ results.steps_completed = <<"PDF Generation", "OCR Extraction">>

\* the first step is about to run with skip_pdf requested, no custom
\* document, and no sample PDF on disk
SkipPdfWithoutSample ==
  /\ Running(1)
  /\ args.skip_pdf
  /\ args.input_pdf = None
  /\ SamplePdf \notin fs_exists

C4_TerminalStates ==
  /\ Done =>
       /\ results.success <=> results.steps_completed = StageOrder
       /\ results.success => results.errors = <<>>
       /\ ~results.success => Len(results.errors) = 1
  /\ pc = "running" => ~results.success /\ results.errors = <<>>
  /\ pc = "exited" => /\ exit_status \in {0, 1}
                      /\ exit_status = 0 <=> results.success

C4_Witness ==
  /\ pc = "exited"
  /\ exit_status = 0
  /\ results.success
  /\ results.steps_completed = StageOrder

\* every call so far belongs to a step all of whose predecessors are recorded
CallsFollowSteps ==
  \A i \in 1..Len(calls) :
    Len(results.steps_completed) >= StageOfCall[calls[i]] - 1

\* C5: strict order, forward only.  steps_completed is always a prefix of the
\* fixed order (so no step is recorded twice); a collaborator is invoked
\* only by the step that follows the recorded ones; and a transition never
\* removes or reorders a recorded step nor moves back to an earlier step.
C5_StrictOrder ==
  /\ [](/\ \E k \in 0..Len(StageOrder) :
             results.steps_completed = SubSeq(StageOrder, 1, k)
        /\ CallsFollowSteps)
  /\ [][/\ Len(results'.steps_completed) >= Len(results.steps_completed)
        /\ SubSeq(results'.steps_completed, 1, Len(results.steps_completed))
             = results.steps_completed
        /\ stage' >= stage
        /\ Len(calls') >= Len(calls)
        /\ \A i \in (Len(calls) + 1)..Len(calls') :
             StageOfCall[calls'[i]] = Len(results.steps_completed) + 1]_vars

C5_Witness ==
  /\ results.steps_completed = StageOrder
  /\ calls = <<"generate_sample_qa_doc", "extract_text_from_pdf",
               "parse_test_cases", "parse_with_openai", "add_risk_scores",
               "export_test_cases">>

\* C6 as claimed: after an extraction that returned empty text, the run is
\* fatal at the LLM Parsing step: only the two steps before it are recorded,
\* the language model is not called, the report is unsuccessful with one
\* error, and neither scoring nor export runs.
C6_EmptyTextIsFatal ==
  (Done /\ Completed("OCR Extraction") /\ extracted_text = "") =>
    /\ results.steps_completed = <<"PDF Generation", "OCR Extraction">>
    /\ ~Called("parse_test_cases")
    /\ ~Called("parse_with_openai")
    /\ ~results.success
    /\ Len(results.errors) = 1
    /\ ~Called("add_risk_scores")
    /\ ~Called("export_test_cases")

\* C7 as claimed: with an empty record collection in testcases.json when the
\* scoring step is reached, the run fails with one error and neither Risk
\* Scoring nor Export is recorded.
C7_EmptyRecordsAreFatal ==
  (Done /\ Completed("LLM Parsing") /\ testcases_json = <<>>) =>
    /\ ~results.success
    /\ Len(results.errors) = 1
    /\ ~Completed("Risk Scoring")
    /\ ~Completed("Export")

\* C8: skip semantics.  With skip_llm the language model is never invoked
\* and no step changes testcases.json; whenever the scored artifact exists
\* it is the ranking of what testcases.json holds; and every successful run
\* invoked add_risk_scores and export_test_cases, whatever the flags, and
\* exported the scored artifact.
C8_SkipSemantics ==
  /\ [](/\ args.skip_llm =>
             ~Called("parse_test_cases") /\ ~Called("parse_with_openai")
        /\ ScoredPath \in fs_exists =>
             /\ Called("add_risk_scores")
             /\ scored_json = RankRecords(testcases_json)
        /\ results.success =>
             /\ Called("add_risk_scores")
             /\ Called("export_test_cases")
             /\ Completed("Risk Scoring")
             /\ Completed("Export")
             /\ export_data = <<export_test_cases(scored_json)>>)
  /\ [][args.skip_llm =>
          /\ testcases_json' = testcases_json
          /\ (TestcasesPath \in fs_exists') = (TestcasesPath \in fs_exists)]_vars

\* a successful run that reused a non-empty testcases.json
C8_Witness ==
  /\ results.success
  /\ args.skip_llm
  /\ testcases_json # <<>>
  /\ export_data # <<>>
  /\ export_data[1].test_cases = RankRecords(testcases_json)

RankDone == pc = "scorer_done" /\ ScoredPath \in fs_exists

\* C9: after ranking N records the execution_order values are exactly 1..N
\* without duplicates, and a smaller execution_order never goes with a
\* smaller risk_score.
C9_ExecutionOrder ==
  RankDone =>
    LET out == scored_json
        N   == Len(testcases_json)
    IN  /\ Len(out) = N
        /\ {out[i].execution_order : i \in 1..Len(out)} = 1..N
        /\ \A i, j \in 1..Len(out) :
             i # j => out[i].execution_order # out[j].execution_order
        /\ \A i, j \in 1..Len(out) :
             out[i].execution_order < out[j].execution_order
               => out[i].risk_score >= out[j].risk_score

\* three records with three different scores, given in ascending order,
\* have been ranked
C9_Witness ==
  /\ RankDone
  /\ Len(scored_json) = 3
  /\ calculate_risk_score(testcases_json[1]) < calculate_risk_score(testcases_json[2])
  /\ calculate_risk_score(testcases_json[2]) < calculate_risk_score(testcases_json[3])

DerivedFields == {"risk_score", "risk_category", "execution_order"}

\* the record without the fields the scorer writes
Undecorated(tc) == [k \in (DOMAIN tc) \ DerivedFields |-> tc[k]]

\* C10: stability.  For every score, the records with that score appear in
\* the ranked output in the order they had in the input.
C10_StableRanking ==
  RankDone =>
    \A s \in {calculate_risk_score(r) : r \in RecordPool} :
      LET HasScore(tc)  == calculate_risk_score(tc) = s
          tiedIn        == SelectSeq(testcases_json, HasScore)
          tiedOut       == SelectSeq(scored_json, HasScore)
      IN  /\ Len(tiedOut) = Len(tiedIn)
          /\ \A i \in 1..Len(tiedOut) : Undecorated(tiedOut[i]) = tiedIn[i]

\* two different records with the same score were ranked, with a record of
\* a higher score behind them in the input
C10_Witness ==
  /\ RankDone
  /\ Len(testcases_json) = 3
  /\ testcases_json[1] # testcases_json[2]
  /\ calculate_risk_score(testcases_json[1]) = calculate_risk_score(testcases_json[2])
  /\ calculate_risk_score(testcases_json[3]) > calculate_risk_score(testcases_json[1])
  /\ Undecorated(scored_json[2]) = testcases_json[1]
  /\ Undecorated(scored_json[3]) = testcases_json[2]


\* C11: idempotence.  Ranking the ranked collection again leaves it as it
\* is: the same records in the same order, each with the same risk_score,
\* risk_category and execution_order.
C11_RankIdempotent ==
  pc = "rescored" =>
    /\ Len(rescored_json) = Len(scored_json)
    /\ \A i \in 1..Len(scored_json) :
         /\ Undecorated(rescored_json[i]) = Undecorated(scored_json[i])
         /\ rescored_json[i].risk_score = scored_json[i].risk_score
         /\ rescored_json[i].risk_category = scored_json[i].risk_category
         /\ rescored_json[i].execution_order = scored_json[i].execution_order
         /\ rescored_json[i].execution_order = i

\* a collection with two different records of equal score, given behind a
\* record of lower score, has been ranked twice
C11_Witness ==
  /\ pc = "rescored"
  /\ Len(testcases_json) = 3
  /\ testcases_json[2] # testcases_json[3]
  /\ calculate_risk_score(testcases_json[2]) = calculate_risk_score(testcases_json[3])
  /\ calculate_risk_score(testcases_json[1]) < calculate_risk_score(testcases_json[2])
  /\ Len(rescored_json) = 3


\* C12: bands.  In hundredths: 8000 and more is CRITICAL, 6000 to 7999 is
\* HIGH, 4000 to 5999 is MEDIUM, less than 4000 is LOW; every score gets
\* exactly one of the four labels, and each band includes its lower bound.
C12_CategoryBands ==
  pc = "category_done" =>
    /\ category_out \in {"CRITICAL", "HIGH", "MEDIUM", "LOW"}
    /\ category_out = "CRITICAL" <=> score_in >= 8000
    /\ category_out = "HIGH" <=> (score_in >= 6000 /\ score_in < 8000)
    /\ category_out = "MEDIUM" <=> (score_in >= 4000 /\ score_in < 6000)
    /\ category_out = "LOW" <=> score_in < 4000
    /\ score_in = 8000 => category_out = "CRITICAL"
    /\ score_in = 7999 => category_out = "HIGH"
    /\ score_in = 6000 => category_out = "HIGH"
    /\ score_in = 4000 => category_out = "MEDIUM"
    /\ score_in = 3999 => category_out = "LOW"

\* the score exactly on the CRITICAL bound has been labelled
C12_Witness ==
  /\ pc = "category_done"
  /\ score_in = 8000
  /\ category_out = "CRITICAL"


\* the sum of the component weights, an unlisted component counting 1
RECURSIVE WeightSum(_, _)
WeightSum(components, n) ==
  IF n = 0 THEN 0
  ELSE WeightSum(components, n - 1)
       + (IF components[n] \in DOMAIN HIGH_RISK_COMPONENTS
          THEN HIGH_RISK_COMPONENTS[components[n]] ELSE 1)

\* Critical + Security + [Payment Gateway, Authentication] + 9 steps
EndToEndCase ==
  JCase(JStr("Critical"), JStr("Security"),
        JArr(<<"Payment Gateway", "Authentication">>), JArr(Steps(9)))

\* C13: the composite score.  For every test case that is scored, with p, t
\* the table weights of its labels (4 and 5 for an unknown or missing one),
\* m the mean of its component weights (0 for none, at most 10) and x the
\* complexity 6/4/2/1 of its step count, the score is
\* 10*(0.4p + 0.3t + 0.2m + 0.1x) to the nearest hundredth; it is never above
\* 90; and the end-to-end case scores 89.0, CRITICAL.
C13_CompositeScore ==
  (pc = "score_done" /\ ~outcome.raised) =>
    LET tc   == PlainCase(case_in)
        prio == IF "priority" \in DOMAIN tc THEN tc.priority ELSE "Medium"
        type == IF "test_type" \in DOMAIN tc THEN tc.test_type ELSE "Functional"
        comp == IF "components" \in DOMAIN tc THEN tc.components ELSE <<>>
        n    == IF "test_steps" \in DOMAIN tc THEN Len(tc.test_steps) ELSE 0
        p    == IF prio \in DOMAIN PRIORITY_SCORES THEN PRIORITY_SCORES[prio] ELSE 4
        t    == IF type \in DOMAIN TEST_TYPE_SCORES THEN TEST_TYPE_SCORES[type] ELSE 5
        x    == IF n >= 8 THEN 6 ELSE IF n >= 5 THEN 4 ELSE IF n >= 3 THEN 2 ELSE 1
        sum  == WeightSum(comp, Len(comp))
        d    == IF comp = <<>> THEN 1 ELSE Len(comp)
        \* d times the exact score in hundredths
        exact == (400 * p + 300 * t + 100 * x) * d
                   + 200 * (IF sum > 10 * d THEN 10 * d ELSE sum)
        diff == outcome.score * d - exact
    IN  /\ 2 * diff <= d
        /\ 2 * diff >= -d
        /\ outcome.score <= 9000
        /\ outcome.category = get_risk_category(outcome.score)
        /\ case_in = EndToEndCase =>
             outcome.score = 8900 /\ outcome.category = "CRITICAL"

\* the end-to-end case has been scored
C13_Witness ==
  /\ pc = "score_done"
  /\ case_in = EndToEndCase
  /\ ~outcome.raised
  /\ outcome.score = 8900

\* priority Unknown, test_type Unknown, no components, no steps
UnknownCase == JCase(JStr("Unknown"), JStr("Unknown"), JArr(<<>>), JArr(<<>>))

\* C14 as claimed: calculate_risk_score raises for no test case, whatever
\* JSON values its keys hold, and the all-unknown case scores 32.0, LOW.
C14_ScoringNeverRaises ==
  pc = "score_done" =>
    /\ ~outcome.raised
    /\ case_in = UnknownCase =>
         outcome.score = 3200 /\ outcome.category = "LOW"


\* the label of a score, band by band
InBand(category, score) ==
  /\ category = "CRITICAL" <=> score >= 8000
  /\ category = "HIGH"     <=> (score >= 6000 /\ score < 8000)
  /\ category = "MEDIUM"   <=> (score >= 4000 /\ score < 6000)
  /\ category = "LOW"      <=> score < 4000

\* a record has all three derived fields or none of them
AllOrNone(tc) ==
  \/ DerivedFields \cap DOMAIN tc = {}
  \/ DerivedFields \subseteq DOMAIN tc

\* a record has the three derived fields and its label is its score's band
FullyScored(tc) ==
  /\ DerivedFields \subseteq DOMAIN tc
  /\ InBand(tc.risk_category, tc.risk_score)

\* C15: in testcases.json, in testcases_scored.json and in the exported
\* payload, a record has risk_score iff it has risk_category iff it has
\* execution_order; once the Score stage has completed, every record of the
\* scored artifact and of the export has all three, and its risk_category
\* is the band of its risk_score; the scored artifact has a record for each
\* structured record.
C15_DerivedFieldsTogether ==
  /\ \A i \in 1..Len(testcases_json) : AllOrNone(testcases_json[i])
  /\ \A i \in 1..Len(scored_json) : FullyScored(scored_json[i])
  /\ \A e \in 1..Len(export_data) :
       \A i \in 1..Len(export_data[e].test_cases) :
         FullyScored(export_data[e].test_cases[i])
  /\ Completed("Risk Scoring") =>
       /\ ScoredPath \in fs_exists
       /\ Len(scored_json) = Len(testcases_json)

\* a run has scored and exported two structured records
C15_Witness ==
  /\ Completed("Risk Scoring")
  /\ Len(testcases_json) = 2
  /\ Len(scored_json) = 2
  /\ export_data # <<>>
  /\ Len(export_data[1].test_cases) = 2
  /\ scored_json[1].risk_category # scored_json[2].risk_category

\* how many records of s are r once the derived fields are taken away
CountRecord(s, r) ==
  Cardinality({i \in 1..Len(s) : Undecorated(s[i]) = r})

\* out holds the records of in, each as many times, with every field other
\* than the derived ones as it was
SameRecords(in, out) ==
  /\ Len(out) = Len(in)
  /\ \A r \in {Undecorated(in[i]) : i \in 1..Len(in)}
            \cup {Undecorated(out[i]) : i \in 1..Len(out)} :
       CountRecord(out, r) = CountRecord(in, r)

\* C16: frame.  The scored collection holds exactly the input records, none
\* added, dropped or duplicated, each with every field other than
\* risk_score, risk_category and execution_order as in the input (also when
\* the input records carry derived fields already); and no step of the
\* scorer changes the artifact it reads.
C16_ScoreFrame ==
  /\ [](RankDone => SameRecords(testcases_json, scored_json))
  /\ [](pc = "rescored" => SameRecords(scored_json, rescored_json))
  /\ [][/\ testcases_json' = testcases_json
        /\ pc = "scorer_done" => scored_json' = scored_json]_vars

\* three records, among them twice the same one and one without the scored
\* keys, have been ranked and the order has changed
C16_Witness ==
  /\ RankDone
  /\ Len(testcases_json) = 3
  /\ testcases_json[1] = testcases_json[2]
  /\ "priority" \notin DOMAIN testcases_json[3]
  /\ Undecorated(scored_json[1]) = testcases_json[3]
  /\ Len(scored_json) = 3


\* the provider refused the request for its rate: the text names the rate
\* limit and neither the quota nor the key
RateLimited(error_msg) ==
  /\ "rate_limit" \in error_msg
  /\ "insufficient_quota" \notin error_msg
  /\ "invalid_api_key" \notin error_msg

\* C17 as claimed: a failure of the provider ends the run without success,
\* with exactly one of the four messages as its only error; and whatever
\* else the error text holds, a rate-limited failure is reported with the
\* rate-limit message, never as an exhausted quota or an invalid key.
C17_ProviderErrorsDistinct ==
  (Done /\ provider_error # <<>>) =>
    /\ ~results.success
    /\ Len(results.errors) = 1
    /\ results.errors[1] \in {InvalidKeyMsg, QuotaMsg, RateLimitMsg, OtherApiMsg}
    /\ RateLimited(provider_error[1]) => results.errors[1] = RateLimitMsg


(***************************************************************************)
(* app.py: process_pdf, the handler of the web page.  The server runs each *)
(* request in its own thread of one process, so two calls are in progress  *)
(* at once and every step of one may come between two steps of the other.  *)
(* web[r] holds the locals of call r, web_fs[d] the files of the temporary  *)
(* directory d.  The two file names that carry a timestamp are one file of *)
(* their directory.                                                        *)
(***************************************************************************)
MaxWebRecords == 2

\* the two requests in progress
Runs == {1, 2}

\* names tempfile.mkdtemp(prefix="testcase_") can make up
TempDirs == {"testcase_a", "testcase_b", "testcase_c"}

\* what parse_with_openai returns under 'test_cases' for a document
WebRecordPool ==
  {r \in RecordPool : r.test_id \in {"TC-001", "TC-002", "TC-003"}}

WebRecordLists(n) == UNION {[1..k -> WebRecordPool] : k \in 0..n}

\* a directory name that is taken again although it exists
MkdtempAny(existing) == TempDirs

\* tempfile.mkdtemp: a name that does not exist yet
Mkdtemp(existing) == TempDirs \ existing

EmptyDir == [ocr_text |-> "", scored |-> <<>>, final |-> <<>>]

\* mkdir, and open(path, 'w') on a file of directory d
MakeDir(fs, d) ==
  [x \in DOMAIN fs \cup {d} |-> IF x \in DOMAIN fs THEN fs[x] ELSE EmptyDir]

WriteFile(fs, d, name, content) == [fs EXCEPT ![d][name] = content]

\* for tc in test_cases: score = calculate_risk_score(tc);
\* tc['risk_score'] = score; tc['risk_category'] = get_risk_category(score)
WebScoreEach(test_cases) ==
  [i \in 1..Len(test_cases) |->
     LET score == calculate_risk_score(test_cases[i])
         tc    == DictSet(test_cases[i], "risk_score", score)
     IN  DictSet(tc, "risk_category", get_risk_category(score))]

\* a descending sort that swaps equal keys
WebSortTiesSwapped(test_cases) == SortThenReverse(test_cases)

\* test_cases.sort(key=lambda x: x['risk_score'], reverse=True)
WebSort(test_cases) == SortReverse(test_cases)

\* for i, tc in enumerate(test_cases, 1): tc['execution_order'] = i
WebAssignExecutionOrder(test_cases) ==
  [i \in 1..Len(test_cases) |-> DictSet(test_cases[i], "execution_order", i)]

\* Step 3 of process_pdf as a whole
WebRank(test_cases) ==
  WebAssignExecutionOrder(WebSort(WebScoreEach(test_cases)))

NoUploadMsg   == "Please upload a PDF file."
KeyNeededMsg  == "OpenAI API key required."
NoTextMsg     == "Could not extract text from PDF."
NoCasesMsg    == "No test cases found in the document."
PdfMissingMsg == "PDF not found"

\* the first element of the tuple process_pdf returns
Status(kind, text) == [kind |-> kind, text |-> text]

NewCall ==
  [pc |-> "start", temp_dir |-> None, parsed |-> <<>>, test_cases |-> <<>>,
   status |-> Status("", ""), json_output |-> <<>>]

WebInit ==
  /\ PipelineIdle
  /\ pc = "web"
  /\ score_in = 0
  /\ category_out = ""
  /\ case_in = <<>>
  /\ outcome = <<>>
  /\ web = [r \in Runs |-> NewCall]
  /\ web_fs = <<>>

At(r, label) == pc = "web" /\ web[r].pc = label

\* return status, None, None, None
WebReturn(r, status) ==
  web' = [web EXCEPT ![r].pc = "returned", ![r].status = status]

notweb == <<pipeline, pc, score_in, category_out, case_in, outcome>>


\* if pdf_file is None ... if not openai_key: the call ends before any file
\* is made
WebReject(r) ==
  /\ At(r, "start")
  /\ \E msg \in {NoUploadMsg, KeyNeededMsg} : WebReturn(r, Status("", msg))
  /\ UNCHANGED <<notweb, web_fs>>

\* temp_dir = tempfile.mkdtemp(prefix="testcase_")
WebMkdtemp(r) ==
  /\ At(r, "start")
  /\ \E d \in Mkdtemp(DOMAIN web_fs) :
       /\ web' = [web EXCEPT ![r].pc = "extract", ![r].temp_dir = d]
       /\ web_fs' = MakeDir(web_fs, d)
  /\ UNCHANGED notweb

\* extracted_text = extract_text_from_pdf(pdf_file.name, ocr_output), and
\* the return for a text that is blank
WebExtract(r) ==
  /\ At(r, "extract")
  /\ \E text \in {"", "Test case TC-001 ..."} :
       /\ web_fs' = WriteFile(web_fs, web[r].temp_dir, "ocr_text", text)
       /\ IF text = ""
          THEN WebReturn(r, Status("", NoTextMsg))
          ELSE web' = [web EXCEPT ![r].pc = "parse"]
  /\ UNCHANGED notweb

\* except FileNotFoundError as e: the uploaded file is gone
WebExtractFails(r) ==
  /\ At(r, "extract")
  /\ WebReturn(r, Status("File error", PdfMissingMsg))
  /\ UNCHANGED <<notweb, web_fs>>

\* parsed_data = parse_with_openai(...);
\* test_cases = parsed_data.get('test_cases', []), and the return for none
WebParse(r) ==
  /\ At(r, "parse")
  /\ \E parsed \in WebRecordLists(MaxWebRecords) :
       IF parsed = <<>>
       THEN WebReturn(r, Status("", NoCasesMsg))
       ELSE web' = [web EXCEPT ![r].pc = "score", ![r].parsed = parsed,
                               ![r].test_cases = parsed]
  /\ UNCHANGED <<notweb, web_fs>>

\* except ValueError as e: return f"API Error: {str(e)}", ...
WebParseFails(r) ==
  /\ At(r, "parse")
  /\ \E error_msg \in SUBSET ErrorMarkers :
       WebReturn(r, Status("API Error", OpenAIErrorMessage(error_msg)))
  /\ UNCHANGED <<notweb, web_fs>>

\* Step 3: the scores, the sort and the execution order
WebScore(r) ==
  /\ At(r, "score")
  /\ web' = [web EXCEPT ![r].pc = "save",
                        ![r].test_cases = WebRank(web[r].test_cases)]
  /\ UNCHANGED <<notweb, web_fs>>

\* json.dump({'test_cases': test_cases}, f) into temp_dir/testcases_scored.json
WebSave(r) ==
  /\ At(r, "save")
  /\ web_fs' = WriteFile(web_fs, web[r].temp_dir, "scored", web[r].test_cases)
  /\ web' = [web EXCEPT ![r].pc = "export"]
  /\ UNCHANGED notweb

\* export_test_cases(scored_json, json_output, yaml_output): the scored
\* file is read back and the payload written; return status, table_data,
\* json_output, yaml_output
WebExport(r) ==
  /\ At(r, "export")
  /\ LET d       == web[r].temp_dir
         payload == export_test_cases(web_fs[d].scored)
     IN  /\ web_fs' = WriteFile(web_fs, d, "final", <<payload>>)
         /\ web' = [web EXCEPT ![r].pc = "returned",
                               ![r].status = Status("Success", ""),
                               ![r].json_output = <<payload>>]
  /\ UNCHANGED notweb

WebNext ==
  \E r \in Runs :
    \/ WebReject(r)
    \/ WebMkdtemp(r)
    \/ WebExtract(r)
    \/ WebExtractFails(r)
    \/ WebParse(r)
    \/ WebParseFails(r)
    \/ WebScore(r)
    \/ WebSave(r)
    \/ WebExport(r)

WebSpec == WebInit /\ [][WebNext]_vars

Succeeded(r) == web[r].pc = "returned" /\ web[r].status.kind = "Success"

\* C18: two calls of process_pdf in progress at once.  Their artifact
\* directories are never the same one; the scored file of a call holds, from
\* the moment it is saved, the ranking of the records the call's own
\* Structure stage returned; and the payload a call exports and returns is
\* made of those records, whatever the other call has written meanwhile.
C18_RunIsolation ==
  pc = "web" =>
    /\ \A r, q \in Runs :
         (r # q /\ web[r].temp_dir # None /\ web[q].temp_dir # None)
           => web[r].temp_dir # web[q].temp_dir
    /\ \A r \in Runs :
         web[r].pc = "export" \/ Succeeded(r) =>
           web_fs[web[r].temp_dir].scored = WebRank(web[r].parsed)
    /\ \A r \in Runs :
         Succeeded(r) =>
           /\ web[r].json_output = <<export_test_cases(WebRank(web[r].parsed))>>
           /\ web_fs[web[r].temp_dir].final = web[r].json_output

\* both calls have exported, each records that differ from the other's
C18_Witness ==
  /\ pc = "web"
  /\ Succeeded(1) /\ Succeeded(2)
  /\ web[1].parsed # web[2].parsed
  /\ web[1].json_output # web[2].json_output

\* C19: for the records its parser returned, none being the case where the
\* handler returns early, process_pdf holds after its Step 3 what
\* add_risk_scores writes for the same records: the same order, ties
\* included, and the same risk_score, risk_category and execution_order.
C19_SameRanking ==
  pc = "web" =>
    \A r \in Runs :
      (web[r].pc \in {"save", "export", "returned"} /\ web[r].parsed # <<>>)
        => web[r].test_cases = add_risk_scores(web[r].parsed).test_cases

\* a call has ranked two different records of equal score
C19_Witness ==
  /\ pc = "web"
  /\ \E r \in Runs :
       /\ web[r].pc = "save"
       /\ Len(web[r].parsed) = 2
       /\ web[r].parsed[1] # web[r].parsed[2]
       /\ web[r].test_cases[1].risk_score = web[r].test_cases[2].risk_score
       /\ Undecorated(web[r].test_cases[1]) = web[r].parsed[1]

====
